---- MODULE Spec2Model ----
(***************************************************************************)
(* A model of the thread core of the kernel (kernel/src/process/thread.rs): *)
(* the global thread table under its read-write lock, Thread::register,     *)
(* find_available_tid, Thread::fork, Thread::from_raw, Thread::take /       *)
(* Thread::restore and the task loop built by spawn; and of the stack       *)
(* unwinder (kernel/src/debug.rs).                                          *)
(*                                                                          *)
(* The specifications of the module:                                        *)
(*   SpecTable  concurrent register and fork calls on the thread table      *)
(*   SpecTask   spawn and the task loops driving the threads' contexts      *)
(*   SpecFork   fork and from_raw with the data they copy                   *)
(*   SpecUnwind Frame::unwind (kernel/src/debug.rs) on a stack of frames    *)
(*   SpecSleep, SpecTrip, SpecCurrent, SpecDepth: sleep, a direct take and  *)
(*   restore, current() and UNWIND_DEPTH, each on its own                   *)
(***************************************************************************)
EXTENDS Integers, FiniteSets, Sequences, TLC

(***************************************************************************)
(* Bounds of the model.                                                     *)
(***************************************************************************)
\* number of concurrent callers of register / fork
NCalls == 3
\* number of processes whose threads call fork
NProcs == 2
\* largest id a caller pre-assigns to a thread before register
MaxPreId == 2

\* the id space of the threads (u64 in the kernel): the ids a search can give
\* are the ids a caller can pre-assign
MaxId == MaxPreId

Calls == 1..NCalls
Procs == 1..NProcs
PreIds == 1..MaxPreId

VARIABLES
    THREAD_TABLE,   \* BTreeMap<u64, Arc<Thread>>: id -> the call that built the thread
    tableWriter,    \* the calls holding THREAD_TABLE's write lock (none or one)
    tableReaders,   \* the calls holding THREAD_TABLE's read lock
    procLock,       \* per process: the calls holding Thread.parent's lock (none or one)
    cpc,            \* per call: its position in register / fork
    ckind,          \* per call: "none", "register" or "fork"
    cself,          \* per call: the id the call was made with (0: assign one)
    cid,            \* per call: the id of the thread being registered (self.id / id)
    cprobe,         \* per call: the candidate id of find_available_tid's search
    cproc,          \* per call: the process of the forking thread
    cret            \* per call: the id of the returned handle, 0 before the return

tableVars == <<THREAD_TABLE, tableWriter, tableReaders, procLock, cpc, ckind,
               cself, cid, cprobe, cproc, cret>>

\* largest number of files a process has open
MaxFiles == 1
\* number of callers of fork / from_raw whose data are followed
NForks == 1

Forkers == 1..NForks

\* the id of the thread making call c, and the signals it blocks: a thread
\* registered earlier, out of the reach of the searches of the model
SelfTid(c) == NCalls + MaxPreId + NProcs + c
SelfMask == {2}

\* const DEBUG_THREAD_ID (0xdeadbeef), const DEBUG_PROC_ID (0xbeefdead) and the
\* parent id of a process without a parent (0xffff_ffff): three fixed ids, kept
\* distinct and above every other id of the model
DEBUG_THREAD_ID == SelfTid(NCalls) + 1
DEBUG_PROC_ID == SelfTid(NCalls) + 2
NoParentId == SelfTid(NCalls) + 3

\* what a call holds before it builds a thread, a process, an address space
NoThread == [absent |-> "thread"]
NoProcess == [absent |-> "process"]
NoVm == [of |-> "none", n |-> 0]

VARIABLES
    parent_process, \* per process: the Process behind Thread.parent of its threads
    self_thread,    \* per call: the forking thread (id, inner fields, vm handle)
    context,        \* per call: the `context` argument of fork
    fork_ctx,       \* per call: the local `ctx` of fork
    vm,             \* per call: the local `vm`, a handle of an address space
    forked_process, \* per call: the Process the call built (fork line 175, from_raw line 268)
    thread,         \* per call: the Thread the call built (fork line 195, from_raw line 266)
    selfInner,      \* per call: the holders of the forking thread's inner lock
    PROCESS_TABLE,  \* the global process registry: id -> the call that built the process
    atCall,         \* per call: the forking thread and the argument when fork was called
    cloned          \* per call: the parent process as it was when line 168 cloned the vm

forkVars == <<parent_process, self_thread, context, fork_ctx, vm, forked_process, thread,
              selfInner, PROCESS_TABLE, atCall, cloned>>

\* number of threads a task loop can drive
NThreads == 2
\* number of spawn calls (scheduler tasks)
MaxTasks == 2

Threads == 1..NThreads
Tasks == 1..MaxTasks

\* values of one saved register / of the floating-point state
Regs == {0, 1}

\* arch::interrupt::Context, reduced to the return-value register and one other
Context == [rax : Regs, rip : Regs]

\* struct ThreadContext { user_context, fp_state }
ThreadContext == [user_context : Context, fp_state : Regs]

\* a context as FpState::new() and Context::default() give it
FreshContext == [user_context |-> [rax |-> 0, rip |-> 0], fp_state |-> 0]

\* the contexts a trap leaves behind in the runs of the task loop: they vary in
\* the return-value register
TrapContext == {c \in ThreadContext : c.fp_state = 0 /\ c.user_context.rip = 0}

\* Option::None of ThreadInner.thread_context, and of a task's local ctx
NoContext == [none |-> TRUE]

\* the contexts fork is called with: the return-value register is not zero
ForkArgs == {a \in Context : a.rax = 1}

\* the context of a thread that entered the kernel by a system call
SyscallContext == [rax |-> 1, rip |-> 0]

\* the stored context of a forking thread: taken by its task, or in place
ForkStored == {NoContext, FreshContext}

VARIABLES
    thread_context, \* per thread: ThreadInner.thread_context (Option<ThreadContext>)
    innerLock,      \* per thread: the tasks holding Thread.inner's lock (none or one)
    ttask,          \* per task: the thread captured by its future
    tpc,            \* per task: its position in the loop of spawn
    ctx,            \* per task: the local `ctx` of the loop (NoContext when not held)
    exited,         \* per task: the captured `exited`
    should_yield,   \* per task: the captured `should_yield`
    handled,        \* per task: what trap_dispatcher_user returned last
    yreq,           \* per task: did the dispatcher ask for a yield in this iteration
    iter            \* per task: the steps of the current iteration, in order

taskVars == <<thread_context, innerLock, ttask, tpc, ctx, exited, should_yield,
              handled, yreq, iter>>

VARIABLES
    sched,          \* FIFO_SCHEDULER: the tasks submitted, in submission order
    spawnCalls      \* per thread: the number of spawn calls made on it

schedVars == <<sched, spawnCalls>>

\* largest address of the unwinder's memory; the valid stack lies inside
MaxAddr == 3
\* largest depth unwind is called with
MaxDepth == 2
\* core::mem::size_of::<u64>()
Word == 8

Addr == 0..MaxAddr
Depths == 0..MaxDepth

\* the addresses memory::check_within_stack accepts
Stack == 1..(MaxAddr - 1)

\* __guard_bottom and __guard_top, and the return addresses a frame can hold:
\* one below the range, two inside, one above
guard_bottom == Word
guard_top == 2 * Word
Ips == {0, Word, 2 * Word, 3 * Word}

\* the frames of a stack: at each valid address a saved base pointer (*bp) and
\* a return address (*(bp + 8))
Frames == [Stack -> [saved_bp : Addr, ra : Ips]]

VARIABLES
    upc,            \* the position of unwind: "idle", "loop" or "done"
    stack,          \* the frames in memory, fixed during the call
    rbp,            \* Frame.rbp of the captured frame
    depth,          \* the argument of unwind
    prev_ip,        \* the local prev_ip
    bp,             \* the local bp
    ip,             \* the local ip
    cur_depth,      \* the local cur_depth
    log,            \* the lines written to the error log, in order
    derefs,         \* the base pointers unwind has read memory through
    passes          \* the number of passes of the loop so far, modulo 2

unwindVars == <<upc, stack, rbp, depth, prev_ip, bp, ip, cur_depth, log, derefs, passes>>

\* largest number of whole seconds of a duration passed to sleep
MaxSecs == 30
\* const TIME_SLICE: u128 = 10_000
TIME_SLICE == 10000

\* core::time::Duration, reduced to whole seconds and the milliseconds of the
\* part below a second
Duration == [secs : 0..MaxSecs, subsec_millis : {0, 5, 25, 999}]

VARIABLES
    spc,            \* the position of sleep: "idle", "loop" or "done"
    duration,       \* the argument of sleep
    cnt,            \* the local cnt
    ticks           \* the number of calls of countdown(TIME_SLICE) so far

sleepVars == <<spc, duration, cnt, ticks>>

VARIABLES
    trip,           \* per thread: the position of its direct caller of take / restore
    taken,          \* per thread: the context its caller got from take
    before          \* per thread: the stored context as it was before the take

tripVars == <<trip, taken, before>>

\* MAX_CPU_NUM: the number of per-CPU slots
MAX_CPU_NUM == 2

Cpus == 0..(MAX_CPU_NUM - 1)

VARIABLES
    CURRENT_THREAD_PER_CPU, \* per CPU: the thread in the slot, or EmptySlot
    cur_ret                 \* per CPU: what the last call of current() found and returned

cpuVars == <<CURRENT_THREAD_PER_CPU, cur_ret>>

\* longest value of the build setting
MaxLen == 3
\* the characters of the build setting: digits, a sign and a letter
Chars == {"0", "1", "5", "+", "a"}

VARIABLES
    RUST_BACKTRACE, \* the setting the kernel was built with: Unbuilt, Absent or a string
    UNWIND_DEPTH    \* the lazy static: Unread, a value, or Panicked

depthVars == <<RUST_BACKTRACE, UNWIND_DEPTH>>

\* largest number of TcpStream values, and of sockets in SOCKET_SET
MaxStreams == 2
MaxSockets == 2

VARIABLES
    streams,        \* the TcpStream values, in the order they were made: socket, addr, state
    SOCKET_SET,     \* the smoltcp sockets, in the order they were added: a handle is an index
    apc,            \* the position of the call of accept: "idle", "lock", "waiting", "ok", "err"
    astream,        \* the stream accept was called on
    aentry,         \* the stream as it was when accept was called
    aseen,          \* what the last check of accept's loop saw: the state and is_active()
    aerr,           \* the error of an accept that failed
    awoken          \* has SOCKET_CONDVAR woken the call of accept

tcpVars == <<streams, SOCKET_SET, apc, astream, aentry, aseen, aerr, awoken>>

\* largest object identifier, transaction identifier and object type of a key
MaxOid == 2
MaxXid == 3
MaxType == 3

VARIABLES
    ok_a, ok_b,     \* two keys of the object map
    ok_ord,         \* ok_a.cmp(&ok_b) and ok_b.cmp(&ok_a)
    jk_a, jk_b,     \* two file-system keys
    jk_ord          \* jk_a.cmp(&jk_b) and jk_b.cmp(&jk_a)

keyVars == <<ok_a, ok_b, ok_ord, jk_a, jk_b, jk_ord>>

\* the state of the network sockets and of the file-system keys
libVars == <<tcpVars, keyVars>>

\* the state of the calls made outside the thread table and the task loops
callVars == <<sleepVars, tripVars, cpuVars, depthVars, libVars>>

\* what the actions on the thread table leave alone
notTable == <<taskVars, schedVars, unwindVars, callVars>>

\* what the steps of a task leave alone
notTask == <<tableVars, forkVars, schedVars, unwindVars, callVars>>

(***************************************************************************)
(* spin::RwLock: a reader gets in whenever no writer holds the lock, a      *)
(* writer only when nobody holds it.  The lock is not reentrant.            *)
(***************************************************************************)
CanRead(writer) == writer = {}

CanWrite(writer, readers) == writer = {} /\ readers = {}

\* a lock that lets a second holder in
MutexFreeAlways(holders) == TRUE

\* SpinLockNoInterrupt (Mutex): lock() spins until nobody holds the lock
MutexFree(holders) == holders = {}

\* an insert that keeps the value a key already has
InsertIfAbsent(tbl, id, h) ==
    [i \in DOMAIN tbl \cup {id} |-> IF i \in DOMAIN tbl THEN tbl[i] ELSE h]

\* an insert that drops every other entry of the table
InsertAlone(tbl, id, h) == [i \in {id} |-> h]

\* BTreeMap::insert: the new value replaces whatever the key held
Insert(tbl, id, h) == [i \in DOMAIN tbl \cup {id} |-> IF i = id THEN h ELSE tbl[i]]

\* BTreeMap::get(id).is_none()
IsFree(tbl, id) == id \notin DOMAIN tbl

\* register, line 154: id 0 asks for find_available_tid, any other id is kept
AfterWrite(id) == IF id = 0 THEN "find_read" ELSE "insert"

\* where register returns to: fork line 209, from_raw line 297
AfterRegister(kind) == IF kind = "fork" THEN "fork_link" ELSE "raw_register"

(***************************************************************************)
(* Thread::register(self)                                                   *)
(***************************************************************************)
\* a caller builds a thread (id 0 or a pre-assigned id) and calls register
CallRegister(c, id) ==
    /\ cpc[c] = "idle"
    /\ cpc' = [cpc EXCEPT ![c] = "reg_write"]
    /\ ckind' = [ckind EXCEPT ![c] = "register"]
    /\ cself' = [cself EXCEPT ![c] = id]
    /\ cid' = [cid EXCEPT ![c] = id]
    /\ UNCHANGED <<THREAD_TABLE, tableWriter, tableReaders, procLock, cprobe, cproc, cret>>
    /\ UNCHANGED <<forkVars, notTable>>

\* line 152: THREAD_TABLE.write(), spinning until nobody holds the lock;
\* lines 154-157: the match on self.id
register_write(c) ==
    /\ cpc[c] = "reg_write"
    /\ CanWrite(tableWriter, tableReaders)
    /\ tableWriter' = {c}
    /\ cpc' = [cpc EXCEPT ![c] = AfterWrite(cid[c])]
    /\ cprobe' = [cprobe EXCEPT ![c] = 1]
    /\ UNCHANGED <<THREAD_TABLE, tableReaders, procLock, ckind, cself, cid, cproc, cret>>
    /\ UNCHANGED <<forkVars, notTable>>

\* line 100: THREAD_TABLE.read() of one probe, spinning while a writer holds the lock
find_read(c) ==
    /\ cpc[c] = "find_read"
    /\ CanRead(tableWriter)
    /\ tableReaders' = tableReaders \cup {c}
    /\ cpc' = [cpc EXCEPT ![c] = "find_get"]
    /\ UNCHANGED <<THREAD_TABLE, tableWriter, procLock, ckind, cself, cid, cprobe, cproc, cret>>
    /\ UNCHANGED <<forkVars, notTable>>

\* line 101 with the search run out: register hands the error on (line 155,
\* the write guard dropped on return), fork panics in unwrap (line 174)
AfterExhausted(kind) == IF kind = "fork" THEN "panicked" ELSE "failed"

\* line 100: get(id).is_none() under the read guard, which is dropped with the
\* probe; the first free id ends the search, and so does the last id of the
\* id space
find_get(c) ==
    /\ cpc[c] = "find_get"
    /\ tableReaders' = tableReaders \ {c}
    /\ IF IsFree(THREAD_TABLE, cprobe[c])
          THEN /\ cid' = [cid EXCEPT ![c] = cprobe[c]]
               /\ cpc' = [cpc EXCEPT ![c] =
                             IF ckind[c] = "fork" THEN "fork_process" ELSE "insert"]
               /\ UNCHANGED <<cprobe, tableWriter>>
          ELSE IF cprobe[c] < MaxId
                  THEN /\ cprobe' = [cprobe EXCEPT ![c] = cprobe[c] + 1]
                       /\ cpc' = [cpc EXCEPT ![c] = "find_read"]
                       /\ UNCHANGED <<cid, tableWriter>>
                  ELSE /\ cpc' = [cpc EXCEPT ![c] = AfterExhausted(ckind[c])]
                       /\ tableWriter' = tableWriter \ {c}
                       /\ UNCHANGED <<cid, cprobe>>
    /\ UNCHANGED <<THREAD_TABLE, procLock, ckind, cself, cproc, cret>>
    /\ UNCHANGED <<forkVars, notTable>>

\* lines 158-162: self.id = id, table.insert(id, arced_self.clone()), and the
\* write guard dropped on return
register_insert(c) ==
    /\ cpc[c] = "insert"
    /\ tableWriter = {c}
    /\ THREAD_TABLE' = Insert(THREAD_TABLE, cid[c], c)
    /\ tableWriter' = {}
    /\ IF ckind[c] = "register"
          THEN /\ cpc' = [cpc EXCEPT ![c] = "done"]
               /\ cret' = [cret EXCEPT ![c] = cid[c]]
          ELSE /\ cpc' = [cpc EXCEPT ![c] = AfterRegister(ckind[c])]
               /\ UNCHANGED cret
    /\ UNCHANGED <<tableReaders, procLock, ckind, cself, cid, cprobe, cproc>>
    /\ UNCHANGED <<forkVars, notTable>>

(***************************************************************************)
(* Thread::fork(&mut self, context)                                         *)
(***************************************************************************)
\* Arc::new(Mutex::new(self.vm.lock().clone())): a handle of its own for the copy
CloneVmAliased(handle, c) == handle

\* line 168: the address space is cloned into a new Arc, a handle no one else has
CloneVm(handle, c) == [of |-> "fork", n |-> c]

\* context.regs.rax = 0 written through the argument
ZeroRaxInPlace(arg) ==
    [context |-> [arg EXCEPT !.rax = 0], ctx |-> [arg EXCEPT !.rax = 0]]

\* lines 170-171: ctx = context.clone(); ctx.regs.rax = 0.  The argument and
\* the local after the two statements
ZeroRaxOfClone(arg) == [context |-> arg, ctx |-> [arg EXCEPT !.rax = 0]]

\* a Process literal that takes the signal state of the parent along
ForkedProcessKeepsSignals(lock, p, id, handle) ==
    [process_id |-> id, process_group_id |-> lock.process_group_id,
     threads |-> << >>, vm |-> handle, exec_path |-> lock.exec_path,
     pwd |-> lock.pwd, opened_files |-> {}, exit_code |-> 0, futexes |-> {},
     parent |-> [id |-> lock.process_id, weak |-> p], children |-> << >>,
     pending_sigset |-> lock.pending_sigset, sig_queue |-> lock.sig_queue,
     actions |-> lock.actions]

\* lines 175-191: the Process literal of fork, field by field; `lock` is the
\* guarded parent process p, `handle` the local vm
ForkedProcess(lock, p, id, handle) ==
    [process_id |-> id, process_group_id |-> lock.process_group_id,
     threads |-> << >>, vm |-> handle, exec_path |-> lock.exec_path,
     pwd |-> lock.pwd, opened_files |-> {}, exit_code |-> 0, futexes |-> {},
     parent |-> [id |-> lock.process_id, weak |-> p], children |-> << >>,
     pending_sigset |-> {}, sig_queue |-> << >>, actions |-> lock.actions]

\* lines 195-207: the Thread literal of fork
ForkedThread(id, c, mask, saved, handle) ==
    [id |-> id, parent |-> c, sigmask |-> mask,
     thread_context |-> [user_context |-> saved, fp_state |-> 0], vm |-> handle]

\* super::register(&process, id): the process enters the global registry
ProcessRegister(tbl, id, c) == Insert(tbl, id, c)

\* Process::add_file: the file gets the lowest descriptor not in use
AddFile(files) == files \cup {Cardinality(files)}

\* a thread of process p calls fork(context); the thread's stored context is
\* `stored` (absent while its task holds it, present otherwise)
CallFork(c, p, arg, stored) ==
    /\ cpc[c] = "idle"
    /\ cpc' = [cpc EXCEPT ![c] = "fork_vm"]
    /\ ckind' = [ckind EXCEPT ![c] = "fork"]
    /\ cproc' = [cproc EXCEPT ![c] = p]
    /\ context' = [context EXCEPT ![c] = arg]
    /\ self_thread' = [self_thread EXCEPT ![c] =
                          [id |-> SelfTid(c), thread_context |-> stored,
                           sigmask |-> SelfMask, vm |-> parent_process[p].vm]]
    /\ atCall' = [atCall EXCEPT ![c] =
                     [self_thread |-> self_thread'[c], context |-> arg]]
    /\ UNCHANGED <<THREAD_TABLE, tableWriter, tableReaders, procLock, cself, cid, cprobe, cret>>
    /\ UNCHANGED <<parent_process, fork_ctx, vm, forked_process, thread, selfInner,
                   PROCESS_TABLE, cloned>>
    /\ UNCHANGED notTable

\* line 168: self.vm.lock(), the clone, and the guard dropped with the
\* statement; lines 170-171: the context copied and its rax zeroed
fork_vm(c) ==
    /\ cpc[c] = "fork_vm"
    /\ vm' = [vm EXCEPT ![c] = CloneVm(self_thread[c].vm, c)]
    /\ cloned' = [cloned EXCEPT ![c] = parent_process[cproc[c]]]
    /\ context' = [context EXCEPT ![c] = ZeroRaxOfClone(context[c]).context]
    /\ fork_ctx' = [fork_ctx EXCEPT ![c] = ZeroRaxOfClone(context[c]).ctx]
    /\ cpc' = [cpc EXCEPT ![c] = "fork_plock"]
    /\ UNCHANGED <<parent_process, self_thread, forked_process, thread, selfInner,
                   PROCESS_TABLE, atCall>>
    /\ UNCHANGED <<THREAD_TABLE, tableWriter, tableReaders, procLock, ckind, cself, cid,
                   cprobe, cproc, cret>>
    /\ UNCHANGED notTable

\* line 173: self.parent.lock(), held to the end of fork; line 174 starts
\* find_available_tid with no table lock held
fork_plock(c) ==
    /\ cpc[c] = "fork_plock"
    /\ MutexFree(procLock[cproc[c]])
    /\ procLock' = [procLock EXCEPT ![cproc[c]] = {c}]
    /\ cprobe' = [cprobe EXCEPT ![c] = 1]
    /\ cpc' = [cpc EXCEPT ![c] = "find_read"]
    /\ UNCHANGED <<THREAD_TABLE, tableWriter, tableReaders, ckind, cself, cid, cproc, cret>>
    /\ UNCHANGED <<forkVars, notTable>>

\* lines 175-193: the forked process is built from the guarded parent and
\* registered under id
fork_process(c) ==
    /\ cpc[c] = "fork_process"
    /\ forked_process' = [forked_process EXCEPT ![c] =
                             ForkedProcess(parent_process[cproc[c]], cproc[c], cid[c], vm[c])]
    /\ PROCESS_TABLE' = ProcessRegister(PROCESS_TABLE, cid[c], c)
    /\ cpc' = [cpc EXCEPT ![c] = "fork_sigmask"]
    /\ UNCHANGED <<parent_process, self_thread, context, fork_ctx, vm, thread, selfInner,
                   atCall, cloned>>
    /\ UNCHANGED <<THREAD_TABLE, tableWriter, tableReaders, procLock, ckind, cself, cid,
                   cprobe, cproc, cret>>
    /\ UNCHANGED notTable

\* line 199: self.inner.lock().sigmask.  The guard is a temporary of the `let
\* thread = Thread { .. }.register().unwrap();` statement and lives to its end
\* (line 209)
fork_sigmask(c) ==
    /\ cpc[c] = "fork_sigmask"
    /\ MutexFree(selfInner[c])
    /\ selfInner' = [selfInner EXCEPT ![c] = {c}]
    /\ cpc' = [cpc EXCEPT ![c] = "fork_sigaltstack"]
    /\ UNCHANGED <<parent_process, self_thread, context, fork_ctx, vm, forked_process,
                   thread, PROCESS_TABLE, atCall, cloned>>
    /\ UNCHANGED <<THREAD_TABLE, tableWriter, tableReaders, procLock, ckind, cself, cid,
                   cprobe, cproc, cret>>
    /\ UNCHANGED notTable

\* line 204: self.inner.lock() once more, spinning until nobody holds the lock;
\* lines 195-207: the child Thread is built and line 208 calls register on it
fork_sigaltstack(c) ==
    /\ cpc[c] = "fork_sigaltstack"
    /\ MutexFree(selfInner[c])
    /\ thread' = [thread EXCEPT ![c] =
                     ForkedThread(cid[c], c, self_thread[c].sigmask, fork_ctx[c], vm[c])]
    /\ cpc' = [cpc EXCEPT ![c] = "reg_write"]
    /\ UNCHANGED <<parent_process, self_thread, context, fork_ctx, vm, forked_process,
                   selfInner, PROCESS_TABLE, atCall, cloned>>
    /\ UNCHANGED <<THREAD_TABLE, tableWriter, tableReaders, procLock, ckind, cself, cid,
                   cprobe, cproc, cret>>
    /\ UNCHANGED notTable

\* line 209: the guards of the statement are dropped; lines 211-215: the child
\* is linked to the parent, the parent's lock guard is dropped and the child's
\* handle returned
fork_link(c) ==
    /\ cpc[c] = "fork_link"
    /\ selfInner' = [selfInner EXCEPT ![c] = {}]
    /\ forked_process' = [forked_process EXCEPT ![c].threads = Append(@, cid[c])]
    /\ parent_process' = [parent_process EXCEPT ![cproc[c]].children =
                             Append(@, [id |-> cid[c], weak |-> c])]
    /\ procLock' = [procLock EXCEPT ![cproc[c]] = {}]
    /\ cret' = [cret EXCEPT ![c] = cid[c]]
    /\ cpc' = [cpc EXCEPT ![c] = "done"]
    /\ UNCHANGED <<self_thread, context, fork_ctx, vm, thread, PROCESS_TABLE, atCall, cloned>>
    /\ UNCHANGED <<THREAD_TABLE, tableWriter, tableReaders, ckind, cself, cid, cprobe, cproc>>
    /\ UNCHANGED notTable

(***************************************************************************)
(* sys_socket (kernel/src/syscall/net.rs): another thread of the process    *)
(* opens a file                                                             *)
(***************************************************************************)
\* line 49: thread.parent.lock().add_file(..), the guard dropped with the
\* statement
sys_socket(p) ==
    /\ MutexFree(procLock[p])
    /\ Cardinality(parent_process[p].opened_files) < MaxFiles
    /\ parent_process' = [parent_process EXCEPT ![p].opened_files = AddFile(@)]
    /\ UNCHANGED <<self_thread, context, fork_ctx, vm, forked_process, thread, selfInner,
                   PROCESS_TABLE, atCall, cloned>>
    /\ UNCHANGED <<tableVars, notTable>>

(***************************************************************************)
(* Thread::from_raw()                                                       *)
(***************************************************************************)
\* lines 268-284: the Process literal of from_raw
RawProcess(handle) ==
    [process_id |-> DEBUG_PROC_ID, process_group_id |-> DEBUG_PROC_ID,
     threads |-> << >>, vm |-> handle, exec_path |-> "", pwd |-> ".",
     opened_files |-> {}, exit_code |-> 0, futexes |-> {},
     parent |-> [id |-> NoParentId, weak |-> 0], children |-> << >>,
     pending_sigset |-> {}, sig_queue |-> << >>, actions |-> "default"]

\* lines 266-294: the Thread literal of from_raw
RawThread(c, handle) ==
    [id |-> DEBUG_THREAD_ID, parent |-> c, sigmask |-> {},
     thread_context |-> FreshContext, vm |-> handle]

\* lines 237-294: the address space is built and the image loaded (any of the
\* three `?` may return the error: loaded = FALSE), then the thread and its
\* process are built around one Arc of the address space; line 297 calls
\* register
CallFromRaw(c, loaded) ==
    /\ cpc[c] = "idle"
    /\ ckind' = [ckind EXCEPT ![c] = "from_raw"]
    /\ IF loaded
          THEN /\ cpc' = [cpc EXCEPT ![c] = "reg_write"]
               /\ cself' = [cself EXCEPT ![c] = DEBUG_THREAD_ID]
               /\ cid' = [cid EXCEPT ![c] = DEBUG_THREAD_ID]
               /\ vm' = [vm EXCEPT ![c] = [of |-> "from_raw", n |-> c]]
               /\ thread' = [thread EXCEPT ![c] = RawThread(c, vm'[c])]
               /\ forked_process' = [forked_process EXCEPT ![c] = RawProcess(vm'[c])]
          ELSE /\ cpc' = [cpc EXCEPT ![c] = "done"]
               /\ UNCHANGED <<cself, cid, vm, thread, forked_process>>
    /\ UNCHANGED <<parent_process, self_thread, context, fork_ctx, selfInner,
                   PROCESS_TABLE, atCall, cloned>>
    /\ UNCHANGED <<THREAD_TABLE, tableWriter, tableReaders, procLock, cprobe, cproc, cret>>
    /\ UNCHANGED notTable

\* line 298: register(&thread_ref.parent, DEBUG_PROC_ID); line 300: the handle
\* is returned
raw_register(c) ==
    /\ cpc[c] = "raw_register"
    /\ PROCESS_TABLE' = ProcessRegister(PROCESS_TABLE, DEBUG_PROC_ID, c)
    /\ cret' = [cret EXCEPT ![c] = cid[c]]
    /\ cpc' = [cpc EXCEPT ![c] = "done"]
    /\ UNCHANGED <<parent_process, self_thread, context, fork_ctx, vm, forked_process,
                   thread, selfInner, atCall, cloned>>
    /\ UNCHANGED <<THREAD_TABLE, tableWriter, tableReaders, procLock, ckind, cself, cid,
                   cprobe, cproc>>
    /\ UNCHANGED notTable

\* one step of call c, whatever its position
CallStep(c) ==
    \/ register_write(c)
    \/ find_read(c)
    \/ find_get(c)
    \/ register_insert(c)
    \/ fork_vm(c)
    \/ fork_plock(c)
    \/ fork_process(c)
    \/ fork_sigmask(c)
    \/ fork_sigaltstack(c)
    \/ fork_link(c)
    \/ raw_register(c)

(***************************************************************************)
(* Thread::take / Thread::restore and the task loop of spawn                *)
(***************************************************************************)
\* a take that copies the value and leaves it in the slot
OptionTakeKeeps(stored) == stored

\* Option::take: what the slot holds once the value is moved out
OptionTake(stored) == NoContext

\* a take that hands out whatever the slot held, None included
TakeOutcomeUnchecked(value) == "switch"

\* take, line 219: unwrap() of the value moved out of the slot panics on None
TakeOutcome(value) == IF value = NoContext THEN "panicked" ELSE "switch"

\* a restore that leaves the slot empty
OptionReplaceDrops(stored, value) == NoContext

\* a restore that leaves in the slot what the slot holds
OptionReplaceKeeps(stored, value) == stored

\* Option::replace: what the slot holds after restore, whatever it held
OptionReplace(stored, value) == value

\* a loop without the break on an unhandled trap
AfterDispatchNoBreak(h) == "signal"

\* spawn, lines 393-400: an unhandled trap breaks the loop
AfterDispatch(h) == IF h THEN "signal" ELSE "done"

\* a loop that breaks on exit before restoring the context
AfterSignalBreak(e) == IF e THEN "done" ELSE "restore"

\* spawn, lines 403-407: handle_signal runs when `exited` is false; restore follows
\* in either case
AfterSignal(e) == "restore"

\* a loop that ends instead of suspending when a yield is asked for
AfterRestoreBreakOnYield(e, y) == IF e \/ y THEN "done" ELSE "take_lock"

\* spawn, lines 408-416: after restore, break if exited, else yield if asked
AfterRestore(e, y) == IF e THEN "done" ELSE IF y THEN "yield" ELSE "take_lock"

\* trap_dispatcher_user's use of its `should_yield: &mut bool`: a request sets
\* the flag, no request leaves it as it was
DispatcherFlag(flag, request) == flag \/ request

\* the thread a task drives
ThreadOf(k) == ttask[k]

\* the tasks that have been submitted to the scheduler
Spawned == {k \in Tasks : tpc[k] # "unspawned"}

\* a scheduler that takes the same future twice
SchedulerSpawnTwice(q, k) == q \o <<k, k>>

\* FIFO_SCHEDULER.spawn, lines 421-424: the future joins the queue once
SchedulerSpawn(q, k) == Append(q, k)

\* spawn(thread), lines 380-427: the future captures the thread and the two
\* flags, both false, and is submitted to FIFO_SCHEDULER; nothing looks at
\* whether the thread already has a task
spawn(k, t) ==
    /\ tpc[k] = "unspawned"
    /\ \A j \in Tasks : j < k => tpc[j] # "unspawned"
    /\ \A u \in Threads : u < t => \E j \in Spawned : ttask[j] = u
    /\ ttask' = [ttask EXCEPT ![k] = t]
    /\ exited' = [exited EXCEPT ![k] = FALSE]
    /\ should_yield' = [should_yield EXCEPT ![k] = FALSE]
    /\ tpc' = [tpc EXCEPT ![k] = "take_lock"]
    /\ sched' = SchedulerSpawn(sched, k)
    /\ spawnCalls' = [spawnCalls EXCEPT ![t] = @ + 1]
    /\ UNCHANGED <<thread_context, innerLock, ctx, handled, yreq, iter>>
    /\ UNCHANGED <<tableVars, forkVars, unwindVars, callVars>>

\* take, line 219: self.inner.lock(), then Option::take reads the slot
\* (mem::replace, first half)
take_lock(k) ==
    /\ tpc[k] = "take_lock"
    /\ MutexFree(innerLock[ThreadOf(k)])
    /\ innerLock' = [innerLock EXCEPT ![ThreadOf(k)] = @ \cup {k}]
    /\ ctx' = [ctx EXCEPT ![k] = thread_context[ThreadOf(k)]]
    /\ tpc' = [tpc EXCEPT ![k] = "take_write"]
    /\ UNCHANGED <<thread_context, ttask, exited, should_yield, handled, yreq, iter>>
    /\ UNCHANGED notTask

\* take, line 219: Option::take leaves None in the slot, then unwrap(); the
\* guard is dropped at the end of the statement.  When unwrap panics the guard
\* is dropped or not, as the build unwinds or aborts.
take_write(k) ==
    /\ tpc[k] = "take_write"
    /\ thread_context' = [thread_context EXCEPT ![ThreadOf(k)] = OptionTake(@)]
    /\ tpc' = [tpc EXCEPT ![k] = TakeOutcome(ctx[k])]
    /\ IF TakeOutcome(ctx[k]) = "panicked"
          THEN /\ \E kept \in BOOLEAN :
                     innerLock' = [innerLock EXCEPT ![ThreadOf(k)] =
                                      IF kept THEN @ ELSE @ \ {k}]
               /\ UNCHANGED iter
          ELSE /\ innerLock' = [innerLock EXCEPT ![ThreadOf(k)] = @ \ {k}]
               /\ iter' = [iter EXCEPT ![k] = <<"take">>]
    /\ UNCHANGED <<ttask, ctx, exited, should_yield, handled, yreq>>
    /\ UNCHANGED notTask

\* ThreadContext::switch, lines 333-337 (spawn line 390): the thread runs in
\* user mode until it traps; registers and floating-point state come back changed
switch(k) ==
    /\ tpc[k] = "switch"
    /\ \E c \in TrapContext : ctx' = [ctx EXCEPT ![k] = c]
    /\ tpc' = [tpc EXCEPT ![k] = "dispatch"]
    /\ iter' = [iter EXCEPT ![k] = Append(@, "switch")]
    /\ UNCHANGED <<thread_context, innerLock, ttask, exited, should_yield, handled, yreq>>
    /\ UNCHANGED notTask

\* spawn, lines 393-400: trap_dispatcher_user(&thread, &mut ctx, &mut should_yield)
\* reports the trap handled or not and may ask for a yield
dispatch(k) ==
    /\ tpc[k] = "dispatch"
    /\ \E h \in BOOLEAN, y \in BOOLEAN, c \in TrapContext :
          /\ handled' = [handled EXCEPT ![k] = h]
          /\ yreq' = [yreq EXCEPT ![k] = y]
          /\ should_yield' = [should_yield EXCEPT ![k] = DispatcherFlag(@, y)]
          /\ ctx' = [ctx EXCEPT ![k] = c]
          /\ tpc' = [tpc EXCEPT ![k] = AfterDispatch(h)]
    /\ iter' = [iter EXCEPT ![k] = Append(@, "dispatch")]
    /\ UNCHANGED <<thread_context, innerLock, ttask, exited>>
    /\ UNCHANGED notTask

\* spawn, lines 403-405: handle_signal(&thread, &mut ctx.user_context) when the
\* thread has not exited; it may change the user context and report an exit
signal(k) ==
    /\ tpc[k] = "signal"
    /\ IF ~exited[k]
          THEN /\ \E e \in BOOLEAN, u \in {c.user_context : c \in TrapContext} :
                     /\ exited' = [exited EXCEPT ![k] = e]
                     /\ ctx' = [ctx EXCEPT ![k] = [@ EXCEPT !.user_context = u]]
                     /\ tpc' = [tpc EXCEPT ![k] = AfterSignal(e)]
               /\ iter' = [iter EXCEPT ![k] = Append(@, "signal")]
          ELSE /\ tpc' = [tpc EXCEPT ![k] = AfterSignal(exited[k])]
               /\ UNCHANGED <<exited, ctx, iter>>
    /\ UNCHANGED <<thread_context, innerLock, ttask, should_yield, handled, yreq>>
    /\ UNCHANGED notTask

\* restore, line 223: self.inner.lock(), thread_context.replace(ctx) and the
\* guard dropped; spawn, lines 408-416: break if exited, else suspend in Yield
\* if should_yield
restore(k) ==
    /\ tpc[k] = "restore"
    /\ MutexFree(innerLock[ThreadOf(k)])
    /\ thread_context' = [thread_context EXCEPT ![ThreadOf(k)] = OptionReplace(@, ctx[k])]
    /\ ctx' = [ctx EXCEPT ![k] = NoContext]
    /\ tpc' = [tpc EXCEPT ![k] = AfterRestore(exited[k], should_yield[k])]
    /\ iter' = [iter EXCEPT ![k] =
                   IF AfterRestore(exited[k], should_yield[k]) = "yield"
                      THEN @ \o <<"restore", "yield">>
                      ELSE Append(@, "restore")]
    /\ yreq' = [yreq EXCEPT ![k] = FALSE]
    /\ UNCHANGED <<innerLock, ttask, exited, should_yield, handled>>
    /\ UNCHANGED notTask

\* spawn, line 415: Yield::default().await returns when the scheduler polls the
\* task again; the loop goes back to take
yield_resume(k) ==
    /\ tpc[k] = "yield"
    /\ tpc' = [tpc EXCEPT ![k] = "take_lock"]
    /\ UNCHANGED <<thread_context, innerLock, ttask, ctx, exited, should_yield, handled,
                   yreq, iter>>
    /\ UNCHANGED notTask

\* one step of task k, whatever its position
TaskStep(k) ==
    \/ take_lock(k)
    \/ take_write(k)
    \/ switch(k)
    \/ dispatch(k)
    \/ signal(k)
    \/ restore(k)
    \/ yield_resume(k)

(***************************************************************************)
(* Frame::unwind(&self, depth) (kernel/src/debug.rs)                        *)
(***************************************************************************)
\* memory::check_within_stack(bp)
check_within_stack(a) == a \in Stack

\* a loop that goes on whatever the number of entries printed
LoopConditionNoDepth(d, cur, i) == i <= guard_top /\ i >= guard_bottom

\* line 111: the condition of the while loop
LoopCondition(d, cur, i) == cur # d /\ i <= guard_top /\ i >= guard_bottom

\* a loop that prints on every pass
DistinctAlways(prev, i) == TRUE

\* line 112: an entry is printed when the instruction pointer is not the one
\* printed last
Distinct(prev, i) == prev # i

\* lines 114-119: the line printed for a stack entry
Entry(cur, i, b) == [line |-> "entry", n |-> cur, rip |-> i - Word, rbp |-> b]

\* the banner printed before the base pointer is looked at
NoTraceAfterBanner(r) == <<[line |-> "banner"], [line |-> "no stack trace", rbp |-> r]>>

\* lines 97-103: what the log holds when the captured base pointer fails the
\* check
NoTrace(r) == <<[line |-> "no stack trace", rbp |-> r]>>

\* a walk that reads the frame behind the saved base pointer without a check
\* of its own
WalkTwo(frames, b) ==
    [through |-> {b, frames[b].saved_bp},
     frame |-> IF frames[b].saved_bp \in DOMAIN frames
                 THEN frames[frames[b].saved_bp] ELSE frames[b]]

\* lines 130-131: the frame read through bp, the pointer line 125 checked
Walk(frames, b) == [through |-> {b}, frame |-> frames[b]]

\* what the rest of the model leaves alone is left alone by unwind
notUnwind == <<tableVars, forkVars, taskVars, schedVars, callVars>>

\* unwind is called on a captured frame; lines 93-108: the base pointer is
\* checked, and either the call returns with the message or the return address
\* is read through it (Frame::ra) and the banner printed
CallUnwind(frames, r, d) ==
    /\ upc = "idle"
    /\ stack' = frames
    /\ rbp' = r
    /\ depth' = d
    /\ prev_ip' = 0
    /\ bp' = r
    /\ cur_depth' = 0
    /\ passes' = 0
    /\ IF ~check_within_stack(r)
          THEN /\ log' = NoTrace(r)
               /\ upc' = "done"
               /\ UNCHANGED <<ip, derefs>>
          ELSE /\ ip' = frames[r].ra
               /\ derefs' = {r}
               /\ log' = <<[line |-> "banner"]>>
               /\ upc' = "loop"
    /\ UNCHANGED notUnwind

\* lines 111-131: one pass of the loop body
unwind_step ==
    /\ upc = "loop"
    /\ LoopCondition(depth, cur_depth, ip)
    /\ IF Distinct(prev_ip, ip)
          THEN /\ log' = Append(log, Entry(cur_depth, ip, bp))
               /\ prev_ip' = ip
               /\ cur_depth' = cur_depth + 1
          ELSE UNCHANGED <<log, prev_ip, cur_depth>>
    /\ IF ~check_within_stack(bp)
          THEN /\ upc' = "break"
               /\ UNCHANGED <<ip, bp, derefs>>
          ELSE /\ ip' = Walk(stack, bp).frame.ra
               /\ bp' = Walk(stack, bp).frame.saved_bp
               /\ derefs' = derefs \cup Walk(stack, bp).through
               /\ upc' = "loop"
    /\ passes' = (passes + 1) % 2
    /\ UNCHANGED <<stack, rbp, depth>>
    /\ UNCHANGED notUnwind

\* line 111 with the condition false, or line 126; line 134: the closing
\* banner, and the return
unwind_return ==
    /\ \/ upc = "loop" /\ ~LoopCondition(depth, cur_depth, ip)
       \/ upc = "break"
    /\ log' = Append(log, [line |-> "banner"])
    /\ upc' = "done"
    /\ UNCHANGED <<stack, rbp, depth, prev_ip, bp, ip, cur_depth, derefs, passes>>
    /\ UNCHANGED notUnwind

\* threads as fork (line 200) and from_raw (line 287) build them: the context is
\* present; no task has been spawned
InitTask ==
    /\ thread_context \in [Threads -> {FreshContext}]
    /\ innerLock = [t \in Threads |-> {}]
    /\ ttask = [k \in Tasks |-> 1]
    /\ tpc = [k \in Tasks |-> "unspawned"]
    /\ ctx = [k \in Tasks |-> NoContext]
    /\ exited = [k \in Tasks |-> FALSE]
    /\ should_yield = [k \in Tasks |-> FALSE]
    /\ handled = [k \in Tasks |-> TRUE]
    /\ yreq = [k \in Tasks |-> FALSE]
    /\ iter = [k \in Tasks |-> << >>]
    /\ sched = << >>
    /\ spawnCalls = [t \in Threads |-> 0]

NextTask ==
    \/ \E k \in Tasks, t \in Threads : spawn(k, t)
    \/ \E k \in Tasks : take_lock(k)
    \/ \E k \in Tasks : take_write(k)
    \/ \E k \in Tasks : switch(k)
    \/ \E k \in Tasks : dispatch(k)
    \/ \E k \in Tasks : signal(k)
    \/ \E k \in Tasks : restore(k)
    \/ \E k \in Tasks : yield_resume(k)

\* a process that runs: it has an image, a working directory, handlers, a
\* pending signal and a futex, and no open file yet
InitialProcess(p) ==
    [process_id |-> NCalls + MaxPreId + p, process_group_id |-> NCalls + MaxPreId + p,
     threads |-> << >>, vm |-> [of |-> "process", n |-> p],
     exec_path |-> <<"bin", p>>, pwd |-> <<"home", p>>, opened_files |-> {},
     exit_code |-> 0, futexes |-> {1},
     parent |-> [id |-> NoParentId, weak |-> 0], children |-> << >>,
     pending_sigset |-> {1}, sig_queue |-> <<1>>, actions |-> <<"handlers", p>>]

InitTable ==
    /\ THREAD_TABLE = << >>
    /\ tableWriter = {}
    /\ tableReaders = {}
    /\ procLock = [p \in Procs |-> {}]
    /\ cpc = [c \in Calls |-> "idle"]
    /\ ckind = [c \in Calls |-> "none"]
    /\ cself = [c \in Calls |-> 0]
    /\ cid = [c \in Calls |-> 0]
    /\ cprobe = [c \in Calls |-> 1]
    /\ cproc = [c \in Calls |-> 1]
    /\ cret = [c \in Calls |-> 0]
    /\ parent_process = [p \in Procs |-> InitialProcess(p)]
    /\ self_thread = [c \in Calls |-> NoThread]
    /\ context = [c \in Calls |-> NoContext]
    /\ fork_ctx = [c \in Calls |-> NoContext]
    /\ vm = [c \in Calls |-> NoVm]
    /\ forked_process = [c \in Calls |-> NoProcess]
    /\ thread = [c \in Calls |-> NoThread]
    /\ selfInner = [c \in Calls |-> {}]
    /\ PROCESS_TABLE = << >>
    /\ atCall = [c \in Calls |-> [self_thread |-> NoThread, context |-> NoContext]]
    /\ cloned = [c \in Calls |-> NoProcess]

\* no unwind under way: an empty log, and any memory
InitUnwind ==
    /\ upc = "idle"
    /\ stack = [a \in Stack |-> [saved_bp |-> 0, ra |-> 0]]
    /\ rbp = 0
    /\ depth = 0
    /\ prev_ip = 0
    /\ bp = 0
    /\ ip = 0
    /\ cur_depth = 0
    /\ log = << >>
    /\ derefs = {}
    /\ passes = 0

NextUnwind ==
    \/ upc = "idle" /\ \E frames \in Frames, r \in Addr, d \in Depths :
                            CallUnwind(frames, r, d)
    \/ unwind_step
    \/ unwind_return

\* fork_sigaltstack and fork_link are steps of CallStep and of no Next:
\* fork_sigaltstack waits for a lock its own call holds, and nothing after it
\* is ever run
NextTable ==
    \/ \E c \in Calls, id \in {0} \cup PreIds : CallRegister(c, id)
    \/ \E c \in Calls, p \in Procs : CallFork(c, p, SyscallContext, NoContext)
    \/ \E c \in Calls : register_write(c)
    \/ \E c \in Calls : find_read(c)
    \/ \E c \in Calls : find_get(c)
    \/ \E c \in Calls : register_insert(c)
    \/ \E c \in Calls : fork_vm(c)
    \/ \E c \in Calls : fork_plock(c)
    \/ \E c \in Calls : fork_process(c)
    \/ \E c \in Calls : fork_sigmask(c)

\* the callers of fork and from_raw start in the order of their numbers
InOrder(c) == \A d \in Forkers : d < c => cpc[d] # "idle"

NextFork ==
    \/ \E c \in Forkers, p \in Procs, arg \in ForkArgs, stored \in ForkStored :
          InOrder(c) /\ CallFork(c, p, arg, stored)
    \/ \E c \in Forkers, loaded \in BOOLEAN : InOrder(c) /\ CallFromRaw(c, loaded)
    \/ \E c \in Forkers : register_write(c)
    \/ \E c \in Forkers : find_read(c)
    \/ \E c \in Forkers : find_get(c)
    \/ \E c \in Forkers : register_insert(c)
    \/ \E c \in Forkers : fork_vm(c)
    \/ \E c \in Forkers : fork_plock(c)
    \/ \E c \in Forkers : fork_process(c)
    \/ \E c \in Forkers : fork_sigmask(c)
    \/ \E c \in Forkers : raw_register(c)
    \/ \E p \in Procs : sys_socket(p)

(***************************************************************************)
(* sleep, lines 108-117                                                     *)
(***************************************************************************)
\* Duration::as_millis: the whole milliseconds of a duration
as_millis(d) == d.secs * 1000 + d.subsec_millis

\* line 111: (duration.as_millis() / TIME_SLICE).min(u64::MAX as u128) as u64;
\* the quotient of a duration of the model is far below u64::MAX
TickCount(d) == as_millis(d) \div TIME_SLICE

\* what the calls of sleep leave alone
notSleep == <<tableVars, forkVars, taskVars, schedVars, unwindVars,
              tripVars, cpuVars, depthVars, libVars>>

\* sleep(duration), lines 109-111
sleep(d) ==
    /\ spc = "idle"
    /\ duration' = d
    /\ cnt' = TickCount(d)
    /\ ticks' = 0
    /\ spc' = "loop"
    /\ UNCHANGED notSleep

\* lines 113-116: one pass of `while cnt != 0`: countdown(TIME_SLICE as _) and
\* cnt -= 1
sleep_countdown ==
    /\ spc = "loop"
    /\ cnt # 0
    /\ ticks' = ticks + 1
    /\ cnt' = cnt - 1
    /\ UNCHANGED <<spc, duration>>
    /\ UNCHANGED notSleep

\* line 113: the loop ends when cnt is 0, and sleep returns
sleep_return ==
    /\ spc = "loop"
    /\ cnt = 0
    /\ spc' = "done"
    /\ UNCHANGED <<duration, cnt, ticks>>
    /\ UNCHANGED notSleep

InitSleep ==
    /\ spc = "idle"
    /\ duration = [secs |-> 0, subsec_millis |-> 0]
    /\ cnt = 0
    /\ ticks = 0

NextSleep ==
    \/ \E d \in Duration : sleep(d)
    \/ sleep_countdown
    \/ sleep_return

(***************************************************************************)
(* Thread::take and Thread::restore called directly, lines 218-224          *)
(***************************************************************************)
\* the contexts a caller passes to restore: the one it holds from take, or any
\* context when it holds none
RestoreArgs(t) == IF trip[t] = "taken" THEN {taken[t]} ELSE ThreadContext

\* the panicking caller of take, as a holder of the thread's inner lock: no task
Panicker == MaxTasks + 1

\* what the direct calls of take and restore leave alone
notTrip == <<tableVars, forkVars, schedVars, unwindVars, sleepVars, cpuVars, depthVars, libVars>>

\* take, line 219: self.inner.lock().thread_context.take().unwrap(); on None
\* unwrap panics, and the guard is dropped or not, as the build unwinds or aborts
Thread_take(t) ==
    /\ trip[t] \in {"idle", "taken"}
    /\ MutexFree(innerLock[t])
    /\ thread_context' = [thread_context EXCEPT ![t] = OptionTake(@)]
    /\ IF TakeOutcome(thread_context[t]) = "panicked"
          THEN /\ trip' = [trip EXCEPT ![t] = "panicked"]
               /\ \E kept \in BOOLEAN :
                     innerLock' = [innerLock EXCEPT ![t] =
                                      IF kept THEN {Panicker} ELSE {}]
               /\ UNCHANGED <<taken, before>>
          ELSE /\ trip' = [trip EXCEPT ![t] = "taken"]
               /\ taken' = [taken EXCEPT ![t] = thread_context[t]]
               /\ before' = [before EXCEPT ![t] = thread_context[t]]
               /\ UNCHANGED innerLock
    /\ UNCHANGED <<ttask, tpc, ctx, exited, should_yield, handled, yreq, iter>>
    /\ UNCHANGED notTrip

\* restore, line 223: self.inner.lock().thread_context.replace(ctx)
Thread_restore(t, c) ==
    /\ trip[t] \in {"idle", "taken"}
    /\ c \in RestoreArgs(t)
    /\ MutexFree(innerLock[t])
    /\ thread_context' = [thread_context EXCEPT ![t] = OptionReplace(@, c)]
    /\ trip' = [trip EXCEPT ![t] = "idle"]
    /\ taken' = [taken EXCEPT ![t] = NoContext]
    /\ before' = [before EXCEPT ![t] = IF trip[t] = "taken" THEN @ ELSE NoContext]
    /\ UNCHANGED <<innerLock, ttask, tpc, ctx, exited, should_yield, handled, yreq, iter>>
    /\ UNCHANGED notTrip

InitTrip ==
    /\ trip = [t \in Threads |-> "idle"]
    /\ taken = [t \in Threads |-> NoContext]
    /\ before = [t \in Threads |-> NoContext]

NextTrip ==
    \/ \E t \in Threads : Thread_take(t)
    \/ \E t \in Threads, c \in ThreadContext : Thread_restore(t, c)

(***************************************************************************)
(* CURRENT_THREAD_PER_CPU and current(), lines 357-374                      *)
(***************************************************************************)
\* Option::None of a per-CPU slot
EmptySlot == [none |-> TRUE]

\* what a slot can hold
Slots == {EmptySlot} \cup {[some |-> t] : t \in Threads}

\* no call of current() made yet
NoReturn == [kind |-> "None"]

\* Option::ok_or followed by `?` and Ok(..clone()), lines 369-372
ok_or(slot, errno) ==
    IF slot = EmptySlot
       THEN [kind |-> "Err", errno |-> errno]
       ELSE [kind |-> "Ok", thread |-> slot.some]

\* what current() and the writes of the slots leave alone
notCpu == <<tableVars, forkVars, taskVars, schedVars, unwindVars,
            sleepVars, tripVars, depthVars, libVars>>

\* current(), lines 367-374, called on CPU cpu_id() = cpu
current(cpu) ==
    /\ cur_ret' = [cur_ret EXCEPT ![cpu] =
                      [ret |-> ok_or(CURRENT_THREAD_PER_CPU[cpu], "EEXIST"),
                       slot |-> CURRENT_THREAD_PER_CPU[cpu]]]
    /\ UNCHANGED CURRENT_THREAD_PER_CPU
    /\ UNCHANGED notCpu

\* the code running on a CPU writes the slot of that CPU
set_current(cpu, slot) ==
    /\ CURRENT_THREAD_PER_CPU[cpu] # slot
    /\ CURRENT_THREAD_PER_CPU' = [CURRENT_THREAD_PER_CPU EXCEPT ![cpu] = slot]
    /\ UNCHANGED cur_ret
    /\ UNCHANGED notCpu

\* lines 357-360: every slot starts as None
InitCpu ==
    /\ CURRENT_THREAD_PER_CPU = [cpu \in Cpus |-> EmptySlot]
    /\ cur_ret = [cpu \in Cpus |-> NoReturn]

NextCurrent ==
    \/ \E cpu \in Cpus : current(cpu)
    \/ \E cpu \in Cpus, slot \in Slots : set_current(cpu, slot)

(***************************************************************************)
(* UNWIND_DEPTH, kernel/src/debug.rs lines 15-20                            *)
(***************************************************************************)
\* unwrap_or(0x5)
DefaultDepth == 5

\* the strings of at most n characters, as sequences of characters
RECURSIVE Strings(_)
Strings(n) ==
    IF n = 0
       THEN {<< >>}
       ELSE LET shorter == Strings(n - 1)
            IN  shorter \cup {Append(str, ch) : str \in {x \in shorter : Len(x) = n - 1},
                                                ch \in Chars}

\* the kernel not built yet; RUST_BACKTRACE not set at build time; set to a string
Unbuilt == [unbuilt |-> TRUE]
Absent == [none |-> TRUE]
Settings == {Absent} \cup {[some |-> str] : str \in Strings(MaxLen)}

\* the lazy static before its first use, and after its initializer panicked
Unread == [unread |-> TRUE]
Panicked == [panicked |-> TRUE]

Digits == {"0", "1", "5"}
DigitValue(ch) == CASE ch = "0" -> 0 [] ch = "1" -> 1 [] ch = "5" -> 5

\* the value of a string of decimal digits
RECURSIVE Decimal(_)
Decimal(str) ==
    IF Len(str) = 0
       THEN 0
       ELSE 10 * Decimal(SubSeq(str, 1, Len(str) - 1)) + DigitValue(str[Len(str)])

\* str::parse::<usize>: an optional leading '+' followed by at least one decimal
\* digit; the empty string, a lone sign and any other character are errors
\* (a value of MaxLen digits is far below usize::MAX)
parse_usize(str) ==
    LET digits == IF Len(str) > 1 /\ str[1] = "+" THEN Tail(str) ELSE str
    IN  IF Len(str) = 0 \/ \E i \in 1..Len(digits) : digits[i] \notin Digits
           THEN [kind |-> "Err"]
           ELSE [kind |-> "Ok", value |-> Decimal(digits)]

\* Result::unwrap_or, line 19
unwrap_or(result, default) == IF result.kind = "Ok" THEN result.value ELSE default

\* lines 16-19: option_env!("RUST_BACKTRACE").unwrap() panics on None;
\* otherwise .parse::<usize>().unwrap_or(0x5)
LazyDepth(env) ==
    IF env = Absent
       THEN Panicked
       ELSE [value |-> unwrap_or(parse_usize(env.some), DefaultDepth)]

\* what the build and the first use of UNWIND_DEPTH leave alone
notDepth == <<tableVars, forkVars, taskVars, schedVars, unwindVars,
              sleepVars, tripVars, cpuVars, libVars>>

\* line 16: option_env! reads the variable when the kernel is compiled
build(env) ==
    /\ RUST_BACKTRACE = Unbuilt
    /\ RUST_BACKTRACE' = env
    /\ UNCHANGED UNWIND_DEPTH
    /\ UNCHANGED notDepth

\* the first dereference of UNWIND_DEPTH runs the initializer of the lazy static
deref_UNWIND_DEPTH ==
    /\ RUST_BACKTRACE # Unbuilt
    /\ UNWIND_DEPTH = Unread
    /\ UNWIND_DEPTH' = LazyDepth(RUST_BACKTRACE)
    /\ UNCHANGED RUST_BACKTRACE
    /\ UNCHANGED notDepth

InitDepth ==
    /\ RUST_BACKTRACE = Unbuilt
    /\ UNWIND_DEPTH = Unread

NextDepth ==
    \/ \E env \in Settings : build(env)
    \/ deref_UNWIND_DEPTH

(***************************************************************************)
(* TcpStream, kernel/src/net/tcp.rs                                         *)
(***************************************************************************)
\* enum TcpState, lines 22-34 (Closing without its Shutdown option)
TcpState == {"Uninit", "Listening", "Alive", "Closing", "Dead"}

\* Option::None of TcpStream.addr
NoAddr == [none |-> TRUE]

\* the socket addresses a caller passes to bind
SocketAddr == {[family |-> "V4", port |-> 0], [family |-> "V4", port |-> 80],
               [family |-> "V6", port |-> 80]}

\* a smoltcp socket, reduced to its state (Closed, Listen, or Established for
\* every state with a peer) and to whether it has a remote endpoint
ClosedSocket == [st |-> "Closed", remote |-> FALSE]
ListenSocket == [st |-> "Listen", remote |-> FALSE]
ActiveSocket == [st |-> "Established", remote |-> TRUE]

\* Socket::is_active
is_active(sock) == sock.st = "Established"

\* Socket::listen: the results it can give, by the port and the socket's state;
\* a closed socket listens on any port but 0, an open one may refuse
SockListen(sock, port) ==
    IF port = 0
       THEN {"Err"}
       ELSE IF sock.st = "Closed" THEN {"Ok"} ELSE {"Ok", "Err"}

\* what the network driver's poll can make of a socket
Polled(sock) ==
    CASE sock.st = "Listen" -> {sock, ActiveSocket}
      [] sock.st = "Established" -> {sock, ClosedSocket}
      [] OTHER -> {sock}

\* a check that lets any active socket through
AcceptReadyAnyState(state, active) == active

\* line 172: self.state == TcpState::Listening && socket.is_active()
AcceptReady(state, active) == state = "Listening" /\ active

\* a returned stream that counts as connected
AcceptedAlive(old, addr) == [socket |-> old, addr |-> addr, state |-> "Alive"]

\* lines 187-192: the stream accept returns
Accepted(old, addr) == [socket |-> old, addr |-> addr, state |-> "Dead"]

\* accept runs on the stream: `&mut self` keeps every other method off it
Busy(s) == apc # "idle" /\ astream = s

\* no check made yet by the call of accept
NothingSeen == [none |-> TRUE]

\* what the calls on the streams leave alone
notTcp == <<tableVars, forkVars, taskVars, schedVars, unwindVars,
            sleepVars, tripVars, cpuVars, depthVars, keyVars>>

\* TcpStream::new, lines 69-80: a closed socket added to SOCKET_SET
TcpStream_new ==
    /\ Len(streams) < MaxStreams
    /\ Len(SOCKET_SET) < MaxSockets
    /\ SOCKET_SET' = Append(SOCKET_SET, ClosedSocket)
    /\ streams' = Append(streams, [socket |-> Len(SOCKET_SET) + 1, addr |-> NoAddr,
                                   state |-> "Uninit"])
    /\ UNCHANGED <<apc, astream, aentry, aseen, aerr, awoken>>
    /\ UNCHANGED notTcp

\* bind, lines 97-111
bind(s, a) ==
    /\ s \in DOMAIN streams
    /\ ~Busy(s)
    /\ IF a.family = "V4" /\ a.port # 0
          THEN streams' = [streams EXCEPT ![s].addr = a, ![s].state = "Uninit"]
          ELSE UNCHANGED streams
    /\ UNCHANGED <<SOCKET_SET, apc, astream, aentry, aseen, aerr, awoken>>
    /\ UNCHANGED notTcp

\* listen, lines 113-143
listen(s) ==
    /\ s \in DOMAIN streams
    /\ ~Busy(s)
    /\ IF streams[s].state = "Uninit" /\ streams[s].addr # NoAddr
          THEN \E res \in SockListen(SOCKET_SET[streams[s].socket], streams[s].addr.port) :
                  IF res = "Ok"
                     THEN /\ SOCKET_SET' = [SOCKET_SET EXCEPT ![streams[s].socket] = ListenSocket]
                          /\ streams' = [streams EXCEPT ![s].state = "Listening"]
                     ELSE UNCHANGED <<SOCKET_SET, streams>>
          ELSE UNCHANGED <<SOCKET_SET, streams>>
    /\ UNCHANGED <<apc, astream, aentry, aseen, aerr, awoken>>
    /\ UNCHANGED notTcp

\* connect, lines 145-155: the driver connects the socket or fails
connect(s) ==
    /\ s \in DOMAIN streams
    /\ ~Busy(s)
    /\ \E ok \in BOOLEAN :
          IF ok
             THEN /\ SOCKET_SET' = [SOCKET_SET EXCEPT ![streams[s].socket] = ActiveSocket]
                  /\ streams' = [streams EXCEPT ![s].state = "Alive"]
             ELSE UNCHANGED <<SOCKET_SET, streams>>
    /\ UNCHANGED <<apc, astream, aentry, aseen, aerr, awoken>>
    /\ UNCHANGED notTcp

\* the network driver polls the interface: a peer connects to a listening
\* socket, or a connection ends
net_poll(h) ==
    /\ h \in DOMAIN SOCKET_SET
    /\ \E sock \in Polled(SOCKET_SET[h]) \ {SOCKET_SET[h]} :
          SOCKET_SET' = [SOCKET_SET EXCEPT ![h] = sock]
    /\ UNCHANGED <<streams, apc, astream, aentry, aseen, aerr, awoken>>
    /\ UNCHANGED notTcp

\* accept, lines 157-166 and 209-211: the address must be there and be IPv4
accept(s) ==
    /\ apc = "idle"
    /\ s \in DOMAIN streams
    /\ astream' = s
    /\ aentry' = streams[s]
    /\ aseen' = NothingSeen
    /\ awoken' = FALSE
    /\ IF streams[s].addr = NoAddr \/ streams[s].addr.family # "V4"
          THEN apc' = "err" /\ aerr' = "EINVAL"
          ELSE apc' = "lock" /\ aerr' = "none"
    /\ UNCHANGED <<streams, SOCKET_SET>>
    /\ UNCHANGED notTcp

\* lines 168-199 and 205-206: one pass of the loop, under the lock of
\* SOCKET_SET: the check, and either the new listening socket put in place of
\* the old one and the old one boxed, or the wait on SOCKET_CONDVAR
accept_check ==
    /\ apc = "lock"
    /\ LET str == streams[astream]
           sock == SOCKET_SET[str.socket]
       IN  /\ aseen' = [state |-> str.state, active |-> is_active(sock),
                        remote |-> sock.remote]
           /\ IF ~AcceptReady(str.state, is_active(sock))
                 THEN /\ apc' = "waiting"
                      /\ UNCHANGED <<streams, SOCKET_SET, aerr>>
                 ELSE IF ~sock.remote
                 THEN /\ apc' = "err" /\ aerr' = "EINVAL"
                      /\ UNCHANGED <<streams, SOCKET_SET>>
                 ELSE \E res \in SockListen(ClosedSocket, str.addr.port) :
                         IF res = "Err"
                            THEN /\ apc' = "err" /\ aerr' = "ECONNREFUSED"
                                 /\ UNCHANGED <<streams, SOCKET_SET>>
                            ELSE /\ Len(SOCKET_SET) < MaxSockets
                                 /\ Len(streams) < MaxStreams
                                 /\ SOCKET_SET' = Append(SOCKET_SET, ListenSocket)
                                 /\ streams' = Append([streams EXCEPT ![astream].socket =
                                                          Len(SOCKET_SET) + 1],
                                                      Accepted(str.socket, str.addr))
                                 /\ apc' = "poll"
                                 /\ UNCHANGED aerr
    /\ UNCHANGED <<astream, aentry, awoken>>
    /\ UNCHANGED notTcp

\* line 195: NETWORK_DRIVERS.read().first().unwrap().poll(), which can move
\* any socket; lines 197-202: the peer's address, and the return
accept_poll ==
    /\ apc = "poll"
    /\ \E h \in DOMAIN SOCKET_SET :
          \E sock \in Polled(SOCKET_SET[h]) :
             SOCKET_SET' = [SOCKET_SET EXCEPT ![h] = sock]
    /\ apc' = "ok"
    /\ UNCHANGED <<streams, astream, aentry, aseen, aerr, awoken>>
    /\ UNCHANGED notTcp

\* SOCKET_CONDVAR is notified and the waiting call goes back to the lock
notify ==
    /\ apc = "waiting"
    /\ apc' = "lock"
    /\ awoken' = TRUE
    /\ UNCHANGED <<streams, SOCKET_SET, astream, aentry, aseen, aerr>>
    /\ UNCHANGED notTcp

\* the caller of accept has its result
accept_return ==
    /\ apc \in {"ok", "err"}
    /\ apc' = "idle"
    /\ UNCHANGED <<streams, SOCKET_SET, astream, aentry, aseen, aerr, awoken>>
    /\ UNCHANGED notTcp

InitTcp ==
    /\ streams = << >>
    /\ SOCKET_SET = << >>
    /\ apc = "idle"
    /\ astream = 1
    /\ aentry = [socket |-> 1, addr |-> NoAddr, state |-> "Uninit"]
    /\ aseen = NothingSeen
    /\ aerr = "none"
    /\ awoken = FALSE

NextTcp ==
    \/ TcpStream_new
    \/ \E s \in 1..MaxStreams, a \in SocketAddr : bind(s, a)
    \/ \E s \in 1..MaxStreams : listen(s)
    \/ \E s \in 1..MaxStreams : connect(s)
    \/ \E h \in 1..MaxSockets : net_poll(h)
    \/ \E s \in 1..MaxStreams : accept(s)
    \/ accept_check
    \/ accept_poll
    \/ notify
    \/ accept_return

(***************************************************************************)
(* ObjectMapKey and JKey, kernel/src/fs/apfs/meta.rs                        *)
(***************************************************************************)
\* u64::cmp
NumCmp(x, y) == IF x < y THEN "Less" ELSE IF x = y THEN "Equal" ELSE "Greater"

\* struct ObjectMapKey, lines 342-345
ObjectMapKey == [ok_oid : 0..MaxOid, ok_xid : 0..MaxXid]

\* ObjectMapKey::cmp, lines 361-373
ObjectMapKey_cmp(self, other) ==
    LET res == NumCmp(self.ok_oid, other.ok_oid)
    IN  IF res = "Equal"
           THEN IF NumCmp(self.ok_xid, other.ok_xid) \in {"Less", "Equal"}
                   THEN "Equal"
                   ELSE "Greater"
           ELSE res

\* a u64 as its high 4 bits and its low 60 bits
U64(hi, lo) == [hi |-> hi, lo |-> lo]

\* struct JKey, lines 421-427: obj_id_and_type holds the object type in the
\* high 4 bits and the object identifier in the low 60 bits
JKey == [obj_id_and_type : {U64(ty, id) : ty \in 0..MaxType, id \in 0..MaxOid}]

\* x & OBJ_ID_MASK (0x0fffffffffffffff): the high 4 bits cleared
AndObjIdMask(x) == U64(0, x.lo)

\* x >> OBJ_TYPE_SHIFT (60): the high 4 bits moved to the bottom
ShrObjTypeShift(x) == U64(0, x.hi)

\* u64::cmp on the two parts of the words
U64Cmp(x, y) == IF x.hi # y.hi THEN NumCmp(x.hi, y.hi) ELSE NumCmp(x.lo, y.lo)

\* JKey::cmp, lines 480-500
JKey_cmp(self, other) ==
    LET obj_lhs == AndObjIdMask(self.obj_id_and_type)
        obj_rhs == AndObjIdMask(other.obj_id_and_type)
    IN  IF U64Cmp(obj_lhs, obj_rhs) = "Equal"
           THEN "Equal"
           ELSE LET type_lhs == ShrObjTypeShift(obj_lhs)
                    type_rhs == ShrObjTypeShift(obj_rhs)
                IN  U64Cmp(type_lhs, type_rhs)

\* what the comparisons of keys leave alone
notKeys == <<tableVars, forkVars, taskVars, schedVars, unwindVars,
             sleepVars, tripVars, cpuVars, depthVars, tcpVars>>

\* two keys of the object map are compared, each with the other
omap_cmp(a, b) ==
    /\ ok_a' = a
    /\ ok_b' = b
    /\ ok_ord' = [ab |-> ObjectMapKey_cmp(a, b), ba |-> ObjectMapKey_cmp(b, a)]
    /\ UNCHANGED <<jk_a, jk_b, jk_ord>>
    /\ UNCHANGED notKeys

\* two file-system keys are compared, each with the other
jkey_cmp(a, b) ==
    /\ jk_a' = a
    /\ jk_b' = b
    /\ jk_ord' = [ab |-> JKey_cmp(a, b), ba |-> JKey_cmp(b, a)]
    /\ UNCHANGED <<ok_a, ok_b, ok_ord>>
    /\ UNCHANGED notKeys

\* the keys with every field 0, compared
InitKeys ==
    /\ ok_a = [ok_oid |-> 0, ok_xid |-> 0]
    /\ ok_b = [ok_oid |-> 0, ok_xid |-> 0]
    /\ ok_ord = [ab |-> "Equal", ba |-> "Equal"]
    /\ jk_a = [obj_id_and_type |-> U64(0, 0)]
    /\ jk_b = [obj_id_and_type |-> U64(0, 0)]
    /\ jk_ord = [ab |-> "Equal", ba |-> "Equal"]

NextOmapKey == \E a \in ObjectMapKey, b \in ObjectMapKey : omap_cmp(a, b)

NextJKey == \E a \in JKey, b \in JKey : jkey_cmp(a, b)

InitCall == InitSleep /\ InitTrip /\ InitCpu /\ InitDepth /\ InitTcp /\ InitKeys

(***************************************************************************)
(* The life of a thread: registered by its builder, spawned, run to the end *)
(***************************************************************************)
\* number of tasks that run next to the calls on the table; task k runs
\* thread k, spawned once
NLives == 1

Lives == 1..NLives

\* thread t of the task loops is the thread built by call t of the table's calls
Builder(t) == t

\* self.parent of line 172: the process of thread t, each thread in a process
\* of its own
ParentOf(t) == t

\* debug_threading, lines 430-440, and every caller that holds the handle
\* register returned: spawn on a thread once its register call has returned
spawn_registered(k, t) ==
    /\ cpc[Builder(t)] = "done"
    /\ spawn(k, t)

NextLife ==
    \/ \E t \in Threads, id \in {0} \cup PreIds : CallRegister(Builder(t), id)
    \/ \E t \in Threads : CallFork(Builder(t), ParentOf(t), SyscallContext, NoContext)
    \/ \E t \in Threads : register_write(Builder(t))
    \/ \E t \in Threads : find_read(Builder(t))
    \/ \E t \in Threads : find_get(Builder(t))
    \/ \E t \in Threads : register_insert(Builder(t))
    \/ \E t \in Threads : fork_vm(Builder(t))
    \/ \E t \in Threads : fork_plock(Builder(t))
    \/ \E t \in Threads : fork_process(Builder(t))
    \/ \E t \in Threads : fork_sigmask(Builder(t))
    \/ \E k \in Lives : spawn_registered(k, k)
    \/ \E k \in Lives : take_lock(k)
    \/ \E k \in Lives : take_write(k)
    \/ \E k \in Lives : switch(k)
    \/ \E k \in Lives : dispatch(k)
    \/ \E k \in Lives : signal(k)
    \/ \E k \in Lives : restore(k)
    \/ \E k \in Lives : yield_resume(k)

vars == <<tableVars, forkVars, taskVars, schedVars, unwindVars, callVars>>

Init == InitTable /\ InitTask /\ InitUnwind /\ InitCall

\* the thread table's calls, with no task running
SpecTable == Init /\ [][NextTable]_vars

\* fork and from_raw with their data, next to a thread that opens files
SpecFork == Init /\ [][NextFork]_vars

\* one call of unwind, which runs on as long as it has a step to take
SpecUnwind == Init /\ [][NextUnwind]_vars /\ WF_vars(NextUnwind)

\* the task loops, with no call on the thread table
SpecTask == Init /\ [][NextTask]_vars

\* register and fork calls, then spawn and the task loops on the registered threads
SpecLife == Init /\ [][NextLife]_vars

\* the calls on the TCP streams, next to the network driver
SpecTcp == Init /\ [][NextTcp]_vars

\* comparisons of keys of the object map, and of file-system keys
SpecOmapKey == Init /\ [][NextOmapKey]_vars

SpecJKey == Init /\ [][NextJKey]_vars

\* one call of sleep
SpecSleep == Init /\ [][NextSleep]_vars

\* take and restore called directly on the threads, with no task running
SpecTrip == Init /\ [][NextTrip]_vars

\* current() on the CPUs, next to the writes of the per-CPU slots
SpecCurrent == Init /\ [][NextCurrent]_vars

\* a build of the kernel and the first use of UNWIND_DEPTH
SpecDepth == Init /\ [][NextDepth]_vars

(***************************************************************************)
(* Properties of the thread table, stated for SpecTable                     *)
(***************************************************************************)
\* the calls that are register calls on a thread with id 0
RegisterCalls0 == {c \in Calls : ckind[c] = "register" /\ cself[c] = 0}

\* the calls that are fork calls
ForkCalls == {c \in Calls : ckind[c] = "fork"}

\* the ids under which the table holds the thread built by call c
EntriesOf(c) == {i \in DOMAIN THREAD_TABLE : THREAD_TABLE[i] = c}

\* the positions of a call that has returned or panicked
Ended == {"done", "failed", "panicked"}

\* no call that was made can take another step
CallsEnded == \A c \in Calls : ~ENABLED CallStep(c)

\* C1: when concurrent register calls on threads with id 0 (and no other call)
\* have ended, the thread table holds exactly one entry per call and the ids
\* given to the calls are pairwise distinct.
C1_OneEntryPerRegister ==
    (/\ \A c \in Calls : ckind[c] = "none" \/ c \in RegisterCalls0
     /\ CallsEnded)
    => /\ \A c \in RegisterCalls0 : Cardinality(EntriesOf(c)) = 1 /\ cret[c] # 0
       /\ \A c, d \in RegisterCalls0 : c # d => cret[c] # cret[d]

\* the positions of a fork call that has the id of find_available_tid in hand
AfterFind == {"fork_process", "fork_sigmask", "fork_sigaltstack", "reg_write",
              "insert", "fork_link", "done"}

C3_RegisterCompletes ==
    \A c \in RegisterCalls0 :
        (cpc[c] \notin Ended /\ tableWriter \subseteq {c} /\ tableReaders \subseteq {c})
        => ENABLED CallStep(c)

(***************************************************************************)
(* Properties of fork and from_raw, stated for SpecTable and SpecFork       *)
(***************************************************************************)
\* the fork calls that have built the forked process
Built == {c \in ForkCalls : forked_process[c] # NoProcess}

\* C12: a fork call that can take no further step has returned a child, and
\* the child's stored context is the context fork was called with, its rax
\* set to zero.
C12_ChildContext ==
    \A c \in ForkCalls :
        ~ENABLED CallStep(c)
        => /\ cret[c] # 0
           /\ thread[c] # NoThread
           /\ thread[c].thread_context.user_context
                 = [atCall[c].context EXCEPT !.rax = 0]

\* C13: at every point of a fork call the forking thread's id, stored context
\* and signal mask, and the context passed to fork, are what they were when
\* fork was called.
C13_ParentUnchanged ==
    \A c \in ForkCalls :
        /\ self_thread[c] = atCall[c].self_thread
        /\ context[c] = atCall[c].context

\* a fork call has gone as far as it gets, on a thread whose context is in place
C13_Witness ==
    \E c \in ForkCalls :
        /\ cpc[c] = "fork_sigaltstack"
        /\ self_thread[c].thread_context = FreshContext
        /\ fork_ctx[c].rax = 0
        /\ context[c].rax = 1

\* C14: a fork call that is under way while no other execution holds the
\* forking thread's inner lock, its process lock or the thread-table lock can
\* always take its next step: it never waits for a lock that it holds itself.
C14_ForkCompletes ==
    \A c \in ForkCalls :
        (/\ cpc[c] \notin Ended
         /\ selfInner[c] \subseteq {c}
         /\ procLock[cproc[c]] \subseteq {c}
         /\ tableWriter \subseteq {c}
         /\ tableReaders \subseteq {c})
        => ENABLED CallStep(c)

\* C15: while a fork call holds the parent's process lock, and so when it
\* copies the process fields, the parent process is as it was when the call
\* cloned the address space.
C15_SnapshotUnderLock ==
    \A c \in ForkCalls :
        procLock[cproc[c]] = {c} => parent_process[cproc[c]] = cloned[c]

\* C16: the process built by fork has the open files of the parent, which the
\* call keeps locked from the copy on.
C16_OpenFilesCloned ==
    \A c \in Built :
        forked_process[c].opened_files = parent_process[cproc[c]].opened_files

\* C17: the process built by fork has the parent's working directory,
\* executable path, process-group id and signal actions; its pending set,
\* signal queue, children list and futex table are empty and its exit code is
\* 0; the parent keeps its own values of these fields.
C17_ProcessFields ==
    \A c \in Built :
        LET F == forked_process[c]
            L == parent_process[cproc[c]]
            I == InitialProcess(cproc[c])
        IN  /\ F.pwd = L.pwd /\ F.exec_path = L.exec_path
            /\ F.process_group_id = L.process_group_id /\ F.actions = L.actions
            /\ F.pending_sigset = {} /\ F.sig_queue = << >> /\ F.children = << >>
            /\ F.futexes = {} /\ F.exit_code = 0
            /\ L.pwd = I.pwd /\ L.exec_path = I.exec_path
            /\ L.process_group_id = I.process_group_id /\ L.actions = I.actions
            /\ L.pending_sigset = I.pending_sigset /\ L.sig_queue = I.sig_queue
            /\ L.futexes = I.futexes /\ L.exit_code = I.exit_code

\* fork has built a process from a parent with a pending signal, a queued
\* signal and a futex
C17_Witness ==
    \E c \in Built :
        /\ parent_process[cproc[c]].pending_sigset # {}
        /\ parent_process[cproc[c]].sig_queue # << >>
        /\ parent_process[cproc[c]].futexes # {}
        /\ forked_process[c].pwd = <<"home", cproc[c]>>

\* C18: a fork call that can take no further step has returned child T in
\* process P: P's parent link names the forking process, the forking process
\* has one children entry for (T, P), P's thread list is [T], P is in the
\* process registry under T's id and T is in the thread table under that id.
C18_ForkLinks ==
    \A c \in ForkCalls :
        ~ENABLED CallStep(c)
        => LET L == parent_process[cproc[c]]
           IN  /\ cret[c] # 0
               /\ forked_process[c].parent = [id |-> L.process_id, weak |-> cproc[c]]
               /\ Cardinality({i \in DOMAIN L.children :
                                 L.children[i] = [id |-> cret[c], weak |-> c]}) = 1
               /\ forked_process[c].threads = <<cret[c]>>
               /\ cret[c] \in DOMAIN PROCESS_TABLE /\ PROCESS_TABLE[cret[c]] = c
               /\ EntriesOf(c) = {cret[c]}

\* C19: a thread built by fork or from_raw has the address-space handle of
\* its process; the handle of a forked process is no handle of a parent
\* process or of another call; the parents keep their handles and share them
\* with the forking threads.
C19_HandleShared ==
    /\ \A c \in Calls : thread[c] # NoThread => thread[c].vm = forked_process[c].vm
    /\ \A c \in Built :
          /\ \A p \in Procs : forked_process[c].vm # parent_process[p].vm
          /\ \A d \in Calls \ {c} :
                forked_process[d] # NoProcess => forked_process[d].vm # forked_process[c].vm
          /\ self_thread[c].vm = parent_process[cproc[c]].vm
    /\ \A p \in Procs : parent_process[p].vm = InitialProcess(p).vm

\* from_raw has returned its thread
C19_Witness ==
    \E c \in Calls :
        /\ ckind[c] = "from_raw" /\ cret[c] = DEBUG_THREAD_ID
        /\ thread[c].vm = [of |-> "from_raw", n |-> c]
        /\ forked_process[c].process_id = DEBUG_PROC_ID

(***************************************************************************)
(* Properties of take, restore and the task loop, stated for SpecTask       *)
(***************************************************************************)
\* the positions of the loop between a take that returned and the restore
Holding == {"switch", "dispatch", "signal", "restore"}

\* the steps of an iteration that the dispatcher reported handled
HandledIteration == <<"take", "switch", "dispatch", "signal", "restore">>

\* the steps of an iteration that the dispatcher reported unhandled
UnhandledIteration == <<"take", "switch", "dispatch">>

\* C4: from the return of take to the next restore (the switch, dispatch and
\* signal-handling phase of every iteration) the thread's stored context is absent.
C4_ContextAbsentWhileTaken ==
    \A k \in Tasks : tpc[k] \in Holding => thread_context[ThreadOf(k)] = NoContext

C4_Witness ==
    \E k \in Tasks : tpc[k] = "signal" /\ thread_context[ThreadOf(k)] = NoContext

\* C5 (as claimed): a take on a thread whose context is absent fails with an
\* error reported to the caller.
C5_TakeReportsError ==
    [][\A k \in Tasks :
          (/\ tpc[k] = "take_write"
           /\ thread_context[ThreadOf(k)] = NoContext
           /\ tpc'[k] # "take_write")
          => tpc'[k] = "take_error"]_vars

\* C5 (amended): a take on a thread whose context is absent panics: the calling
\* execution stops there and nothing is returned to the caller; it never hands
\* out a context and the thread's stored context stays absent.
C5_TakePanics ==
    [][\A k \in Tasks :
          /\ (/\ tpc[k] = "take_write"
              /\ thread_context[ThreadOf(k)] = NoContext
              /\ tpc'[k] # "take_write")
             => /\ tpc'[k] = "panicked"
                /\ ctx'[k] = NoContext
                /\ thread_context'[ThreadOf(k)] = NoContext
          /\ tpc[k] = "panicked" => (tpc'[k] = "panicked" /\ ctx'[k] = NoContext)]_vars

C5_Witness ==
    \E k \in Tasks : tpc[k] = "panicked" /\ thread_context[ThreadOf(k)] = NoContext

\* C6: of the executions that call take on one thread, at most one holds the
\* thread's context at any time.
C6_SingleHolder ==
    \A t \in Threads :
        Cardinality({k \in Spawned : ThreadOf(k) = t /\ tpc[k] \in Holding}) <= 1

C6_Witness ==
    \E k, j \in Spawned :
        /\ k # j
        /\ ThreadOf(k) = ThreadOf(j)
        /\ tpc[k] = "dispatch"
        /\ tpc[j] \in {"take_lock", "panicked"}

\* C7: when the dispatcher reports a trap unhandled the loop ends in that
\* iteration: no signal handling, no restore (the stored context stays absent),
\* no yield, and no further take.
C7_UnhandledEndsLoop ==
    [][\A k \in Tasks :
          (\/ tpc[k] = "dispatch" /\ tpc'[k] # "dispatch" /\ ~handled'[k]
           \/ tpc[k] = "done" /\ ~handled[k])
          => /\ tpc'[k] = "done"
             /\ ~handled'[k]
             /\ iter'[k] = UnhandledIteration
             /\ thread_context'[ThreadOf(k)] = NoContext]_vars

C7_Witness ==
    \E k \in Tasks : tpc[k] = "done" /\ ~handled[k] /\ iter[k] = UnhandledIteration

\* C8: an iteration whose trap was handled runs take, switch, dispatch, signal
\* handling and restore in that order, signal handling exactly once; a loop that
\* ends on exit has restored the context first, so the stored context is
\* present when it ends.
C8_HandledIterationOrder ==
    [][\A k \in Tasks :
          /\ (tpc[k] = "restore" /\ tpc'[k] # "restore")
             => /\ iter[k] = SubSeq(HandledIteration, 1, 4)
                /\ SubSeq(iter'[k], 1, 5) = HandledIteration
                /\ ctx[k] \in ThreadContext
                /\ thread_context'[ThreadOf(k)] = ctx[k]
          /\ (tpc[k] # "done" /\ tpc'[k] = "done" /\ exited'[k])
             => /\ tpc[k] = "restore"
                /\ thread_context'[ThreadOf(k)] \in ThreadContext]_vars

C8_Witness ==
    \E k \in Tasks :
        /\ tpc[k] = "done"
        /\ exited[k]
        /\ iter[k] = HandledIteration
        /\ thread_context[ThreadOf(k)] \in ThreadContext

\* C9: the loop ends only after the dispatcher reported a trap unhandled or
\* signal handling reported the thread exited; otherwise the task is not done.
C9_EndsOnlyOnCause ==
    \A k \in Tasks : tpc[k] = "done" => (~handled[k] \/ exited[k])

C9_Witness ==
    \E k \in Tasks : tpc[k] = "take_lock" /\ iter[k] = HandledIteration /\ ~exited[k]

\* C10: at the end of a non-terminating iteration the task suspends exactly
\* when the dispatcher asked for a yield during that iteration's dispatch, and
\* a resumed task goes back to take.
C10_YieldOnlyOnRequest ==
    [][\A k \in Tasks :
          /\ (tpc[k] = "restore" /\ tpc'[k] # "restore" /\ ~exited[k])
             => (tpc'[k] = "yield" <=> yreq[k])
          /\ (tpc[k] = "yield" /\ tpc'[k] # "yield") => tpc'[k] = "take_lock"]_vars

\* the tasks in the scheduler that drive thread t
TasksOf(t) == {i \in 1..Len(sched) : ttask[sched[i]] = t}

\* C11 (as claimed): after any sequence of spawn calls tasks and threads
\* correspond one to one: one task per spawn call and never two tasks driving
\* the loop of one thread.
C11_OneTaskPerThread ==
    /\ Len(sched) = Cardinality(Spawned)
    /\ \A t \in Threads : Cardinality(TasksOf(t)) <= 1

\* C11 (amended): each spawn call submits exactly one task, driving the thread
\* it was called on; a thread has one task per spawn call made on it.
C11_OneTaskPerSpawn ==
    /\ Len(sched) = Cardinality(Spawned)
    /\ \A i, j \in 1..Len(sched) : i # j => sched[i] # sched[j]
    /\ \A t \in Threads : Cardinality(TasksOf(t)) = spawnCalls[t]

C11_Witness ==
    \E t \in Threads : spawnCalls[t] = 2 /\ Cardinality(TasksOf(t)) = 2
(***************************************************************************)
(* Properties of the stack unwinder, stated for SpecUnwind                  *)
(***************************************************************************)
\* C20: every call of unwind returns, whatever the depth and the frames in
\* the valid stack range.
C20_UnwindReturns == (upc # "idle") ~> (upc = "done")

\* the stack entries in the log
EntriesPrinted == {i \in DOMAIN log : log[i].line = "entry"}

C22_NoTraceOutsideStack ==
    (upc # "idle" /\ ~check_within_stack(rbp))
    => /\ upc = "done"
       /\ log = <<[line |-> "no stack trace", rbp |-> rbp]>>
       /\ derefs = {}

\* unwind has returned on the address just above the stack
C22_Witness ==
    /\ upc = "done"
    /\ rbp = MaxAddr
    /\ Len(log) = 1
    /\ log[1].line = "no stack trace"

\* C23: every base pointer unwind has read memory through passes the
\* stack-range check.
C23_ReadsChecked == \A b \in derefs : check_within_stack(b)

\* a walk that has read through two different base pointers
C23_Witness ==
    /\ upc = "done"
    /\ Cardinality(derefs) >= 2

(***************************************************************************)
(* More properties of register, stated for SpecTable                        *)
(***************************************************************************)
\* every id of the id space is a key of the thread table
TableFull == \A i \in 1..MaxId : i \in DOMAIN THREAD_TABLE

\* the register calls on id 0 that are past line 152 and can take no step
Stopped0 == {c \in RegisterCalls0 : cpc[c] # "reg_write" /\ ~ENABLED CallStep(c)}

\* C25: a register call on a thread with id 0 that got the table lock while
\* some id was free ends with the smallest id that was no key of the table.
C25_SmallestFreeId ==
    \A c \in Stopped0 :
        ~TableFull
        => /\ cret[c] # 0
           /\ EntriesOf(c) = {cret[c]}
           /\ \A i \in 1..(cret[c] - 1) : i \in DOMAIN THREAD_TABLE

\* C26: when register inserts a thread whose pre-assigned id is a key of the
\* table, the table keeps its keys, the id maps to the new thread, every
\* other entry is as before, and the call returns the handle.
C26_RegisterReplaces ==
    [][\A c \in Calls :
          (/\ cpc[c] = "insert" /\ cpc'[c] # "insert"
           /\ cself[c] # 0
           /\ cid[c] \in DOMAIN THREAD_TABLE)
          => /\ DOMAIN THREAD_TABLE' = DOMAIN THREAD_TABLE
             /\ THREAD_TABLE'[cid[c]] = c
             /\ \A i \in DOMAIN THREAD_TABLE \ {cid[c]} : THREAD_TABLE'[i] = THREAD_TABLE[i]
             /\ cret'[c] = cid[c]]_vars

\* two register calls with the same pre-assigned id have returned, and the
\* table holds the thread of one of them next to another entry
C26_Witness ==
    \E c, d \in Calls :
        /\ c # d
        /\ ckind[c] = "register" /\ ckind[d] = "register"
        /\ cret[c] # 0 /\ cret[c] = cret[d]
        /\ THREAD_TABLE[cret[c]] = d
        /\ Cardinality(DOMAIN THREAD_TABLE) = 2

\* C29: a register call on a thread with id 0 that got the table lock while
\* every id was a key has returned the error, and the table holds no entry of
\* the call.
C29_ExhaustedReturnsError ==
    \A c \in Stopped0 :
        TableFull => (cpc[c] = "failed" /\ EntriesOf(c) = {})

(***************************************************************************)
(* Properties of sleep, stated for SpecSleep                                *)
(***************************************************************************)
\* C24: when sleep(d) returns it has called countdown exactly
\* floor(d in milliseconds / 10) times: twice for 25 ms, never below 10 ms
C24_TicksFloorTen ==
    spc = "done" => ticks = as_millis(duration) \div 10

(***************************************************************************)
(* Properties of take and restore, stated for SpecTrip                      *)
(***************************************************************************)
\* C27: a restore of the value just taken, right after the take, leaves the
\* thread as it was before the take: the stored context is present with the
\* content it had, the inner lock is free as before, and no other thread's
\* context changes
C27_RoundTrip ==
    [][\A t \in Threads :
          (trip[t] = "taken" /\ trip'[t] = "idle")
             => /\ thread_context'[t] = before[t]
                /\ thread_context'[t] \in ThreadContext
                /\ innerLock' = innerLock
                /\ innerLock'[t] = {}
                /\ \A u \in Threads \ {t} : thread_context'[u] = thread_context[u]]_vars

\* a thread whose context, not the fresh one, was taken and put back
C27_Witness ==
    \E t \in Threads :
        /\ trip[t] = "idle"
        /\ before[t] \in ThreadContext \ {FreshContext}
        /\ thread_context[t] = before[t]

(***************************************************************************)
(* Properties of current(), stated for SpecCurrent                          *)
(***************************************************************************)
\* the error numbers that say "not found"
NotFound == {"ENOENT", "ESRCH"}

\* C28: current() returns the thread in the calling CPU's slot when the slot
\* is occupied and a NotFound error when it is empty
C28_CurrentOrNotFound ==
    \A cpu \in Cpus :
        cur_ret[cpu] # NoReturn
          => IF cur_ret[cpu].slot = EmptySlot
                THEN /\ cur_ret[cpu].ret.kind = "Err"
                     /\ cur_ret[cpu].ret.errno \in NotFound
                ELSE cur_ret[cpu].ret = [kind |-> "Ok", thread |-> cur_ret[cpu].slot.some]

(***************************************************************************)
(* Properties of UNWIND_DEPTH, stated for SpecDepth                         *)
(***************************************************************************)
\* C30: the default unwind depth, once read, is 5 when the setting is absent
\* or no valid unsigned integer and the configured integer otherwise; reading
\* it never fails
C30_DepthDefaultsToFive ==
    UNWIND_DEPTH # Unread
      => UNWIND_DEPTH =
            [value |-> IF RUST_BACKTRACE = Absent
                          THEN DefaultDepth
                          ELSE unwrap_or(parse_usize(RUST_BACKTRACE.some), DefaultDepth)]

(***************************************************************************)
(* Properties of the life of a thread, stated for SpecLife                  *)
(***************************************************************************)
\* the tasks whose loop has ended, by exit or by an unhandled trap
LoopEnded(k) == tpc[k] = "done"

C32_TakeFindsContext ==
    \A k \in Spawned :
        spawnCalls[ThreadOf(k)] = 1
          => /\ tpc[k] = "take_lock" => thread_context[ThreadOf(k)] \in ThreadContext
             /\ tpc[k] = "take_write" => ctx[k] \in ThreadContext
             /\ tpc[k] # "panicked"

\* the only task of a thread has taken, in a later iteration, the context
\* that its previous iteration restored
C32_Witness ==
    \E k \in Spawned :
        /\ spawnCalls[ThreadOf(k)] = 1
        /\ tpc[k] = "switch"
        /\ ctx[k] \in ThreadContext \ {FreshContext}

(***************************************************************************)
(* More properties of Frame::unwind, stated for SpecUnwind                  *)
(***************************************************************************)
\* a pass of the loop of unwind is taken in this step
LoopPass == upc = "loop" /\ passes' # passes

\* C33: a pass of the loop whose instruction pointer is the one printed last
\* prints nothing and leaves the count of printed entries, and still moves on
\* to the frame behind the base pointer when the base pointer passes the
\* stack-range check; a pass whose instruction pointer differs prints exactly
\* one entry and adds one to the count
C33_SameIpNotCounted ==
    [][LoopPass =>
          /\ ip = prev_ip
                => /\ log' = log
                   /\ cur_depth' = cur_depth
                   /\ check_within_stack(bp)
                         => /\ bp' = stack[bp].saved_bp
                            /\ ip' = stack[bp].ra
                            /\ upc' = "loop"
          /\ ip # prev_ip
                => /\ Len(log') = Len(log) + 1
                   /\ SubSeq(log', 1, Len(log)) = log
                   /\ log'[Len(log')].line = "entry"
                   /\ cur_depth' = cur_depth + 1]_vars

\* the walk has printed, has passed over a repeated instruction pointer
\* without printing, and stands on a frame with another instruction pointer
C33_Witness ==
    /\ upc = "loop"
    /\ Cardinality(EntriesPrinted) = 1
    /\ Cardinality(derefs) = 2
    /\ ip # prev_ip
    /\ LoopCondition(depth, cur_depth, ip)

\* C34: no stack entry is printed whose instruction pointer is outside
\* [guard bottom, guard top] or whose base pointer fails the stack-range check
C34_PrintedInRange ==
    \A i \in EntriesPrinted :
        /\ log[i].rip + Word >= guard_bottom
        /\ log[i].rip + Word <= guard_top
        /\ check_within_stack(log[i].rbp)

\* C35: every printed stack entry pairs the base pointer of a frame (of the
\* valid stack) with the return address stored in that frame, moved back by
\* one machine word
C35_EntryPairsFrame ==
    \A i \in EntriesPrinted :
        check_within_stack(log[i].rbp)
          => log[i].rip = stack[log[i].rbp].ra - Word

(***************************************************************************)
(* Properties of TcpStream::accept, stated for SpecTcp                      *)
(***************************************************************************)
\* the stream accept was called on had an IPv4 address
CalledWithV4 == aentry.addr # NoAddr /\ aentry.addr.family = "V4"

\* C36: accept returns a stream only after a check that saw the state
\* Listening and the socket active; it returns an error only when no IPv4
\* address is bound, the remote endpoint is missing, or the new socket cannot
\* listen; and a call on a stream with an IPv4 address whose state is not
\* Listening has not returned, the stream being as it was at the call
C36_AcceptReturns ==
    /\ apc \in {"poll", "ok"}
          => aseen = [state |-> "Listening", active |-> TRUE, remote |-> TRUE]
    /\ apc = "err"
          => \/ aerr = "EINVAL" /\ ~CalledWithV4
             \/ /\ aerr = "EINVAL"
                /\ aseen = [state |-> "Listening", active |-> TRUE, remote |-> FALSE]
             \/ /\ aerr = "ECONNREFUSED"
                /\ "Ok" \notin SockListen(ClosedSocket, aentry.addr.port)
    /\ (apc # "idle" /\ CalledWithV4 /\ aentry.state # "Listening")
          => /\ apc \in {"lock", "waiting"}
             /\ streams[astream] = aentry

\* accept waits, woken once already, on a connected stream whose socket is
\* active
C36_Witness ==
    /\ apc = "waiting"
    /\ awoken
    /\ aentry.state = "Alive"
    /\ is_active(SOCKET_SET[streams[astream].socket])

Reverse(ord) == CASE ord = "Less" -> "Greater" [] ord = "Greater" -> "Less" [] OTHER -> "Equal"

\* C38: cmp(a, b) is the reverse of cmp(b, a) for all keys of the object map,
\* and two keys with the same object identifier and different transaction
\* identifiers are ordered by transaction identifier
C38_OrderingConsistent ==
    /\ ok_ord.ab = Reverse(ok_ord.ba)
    /\ (ok_a.ok_oid = ok_b.ok_oid /\ ok_a.ok_xid # ok_b.ok_xid)
          => ok_ord.ab = NumCmp(ok_a.ok_xid, ok_b.ok_xid)

\* C39: file-system keys are ordered by object identifier, then by object
\* type; two keys with different object identifiers never compare Equal
C39_JKeyOrdering ==
    jk_ord.ab =
       IF jk_a.obj_id_and_type.lo # jk_b.obj_id_and_type.lo
          THEN NumCmp(jk_a.obj_id_and_type.lo, jk_b.obj_id_and_type.lo)
          ELSE NumCmp(jk_a.obj_id_and_type.hi, jk_b.obj_id_and_type.hi)

====
